---------------------------- MODULE Spec2Model ----------------------------
(***************************************************************************)
(* Model of the Praxis chess game analyzer:                                *)
(*   - StockfishEngine   (src/src/engines/stockfish_engine.py)             *)
(*   - GameAnalyzer      (src/src/core/game_analyzer.py)                   *)
(*   - MockExplainer     (src/src/llms/mock_explainer.py)                  *)
(*   - main()            (src/src/analyze_game.py)                         *)
(*                                                                         *)
(* Three specifications share the variables:                               *)
(*   SpecEngine : any sequence of start()/close()/evaluate() calls on one  *)
(*                StockfishEngine;                                         *)
(*   Spec       : analyze_pgn calls on one GameAnalyzer whose engine is    *)
(*                started, on one game text;                               *)
(*   SpecMain   : one run of main() from engine.start() to process exit.   *)
(*                                                                         *)
(* python-chess objects are modelled by what the code observes of them: a  *)
(* board is its side to move, its move stack and its full-move number; an  *)
(* engine answer (info) is a score relative to the side to move plus a     *)
(* principal variation.                                                    *)
(***************************************************************************)
EXTENDS Integers, Sequences, FiniteSets, TLC

\* ------------------------------------------------------------------ bounds
\* Longest mainline of a game text.
MaxMoves == 3
\* Longest sequence of start/close/evaluate calls on one engine object.
MaxOps == 4

\* --------------------------------------------------------------- constants
\* chess.WHITE / chess.BLACK as board.turn values.
WHITE == "white"
BLACK == "black"
\* self.engine = None.
NoEngine == 0
\* Saturated magnitude reported for a forced mate.
MateCp == 10000

Opp(turn) == IF turn = WHITE THEN BLACK ELSE WHITE

\* ------------------------------------------------------------ chess.Board
\* game.board(): the start position of a game (a FEN header may give Black
\* the first move).
StartBoard(first_turn) ==
    [turn |-> first_turn, move_stack |-> <<>>, fullmove_number |-> 1]

\* board.push(move): the move joins the stack, the turn flips, and the
\* full-move number grows after a move by Black.
Push(board, move) ==
    [turn |-> Opp(board.turn),
     move_stack |-> Append(board.move_stack, move),
     fullmove_number |-> board.fullmove_number
                           + (IF board.turn = BLACK THEN 1 ELSE 0)]

\* move.uci(): origin and destination squares.
Uci(move) == move.from_sq \o move.to_sq

\* board.san(move): the notation depends on the position the move is played
\* from; the model keeps that dependence as the ply and side to move of the
\* board that renders it.
San(board, move) ==
    ToString(Len(board.move_stack)) \o (IF board.turn = WHITE THEN "w" ELSE "b")
        \o ":" \o move.piece \o move.to_sq

RECURSIVE StackText(_)
StackText(stack) ==
    IF stack = <<>> THEN "" ELSE Uci(Head(stack)) \o " " \o StackText(Tail(stack))

\* board.fen(): the position as text (side to move, full-move number, and
\* the placement, which the moves played determine).
Fen(board) ==
    StackText(board.move_stack) \o (IF board.turn = WHITE THEN "w" ELSE "b")
        \o " " \o ToString(board.fullmove_number)

\* The k-th move of a mainline.
MoveAt(k) ==
    [from_sq |-> "a" \o ToString(k), to_sq |-> "b" \o ToString(k), piece |-> "N"]

\* Moves an engine may put first in its principal variation.
PvMoves ==
    {[from_sq |-> "g1", to_sq |-> "f3", piece |-> "N"],
     [from_sq |-> "e2", to_sq |-> "e4", piece |-> ""]}

\* ----------------------------------------------------- schemas/models.py
Evaluation(score_cp, best_move_uci, best_move_san) ==
    [score_cp |-> score_cp, best_move_uci |-> best_move_uci,
     best_move_san |-> best_move_san]

Position(fen, move_number, player_color) ==
    [fen |-> fen, move_number |-> move_number, player_color |-> player_color]

Mistake(p_before, p_after, move_played, e_before, e_after, eval_drop_cp) ==
    [position_before_move |-> p_before,
     position_after_move |-> p_after,
     move_played |-> move_played,
     evaluation_before |-> e_before,
     evaluation_after |-> e_after,
     eval_drop_cp |-> eval_drop_cp]

AnalyzedMistake(the_mistake, the_explanation) ==
    [the_mistake |-> the_mistake, the_explanation |-> the_explanation]

\* Values of locals that are not bound yet.
NoEvaluation == Evaluation(0, "", "")
NoPosition == Position("", 0, "")
NoMistake == Mistake(NoPosition, NoPosition, "", NoEvaluation, NoEvaluation, 0)

\* ------------------------------------------------ engine answers (info)
\* info["score"]: a PovScore; its .relative is Cp(v) or Mate(v) from the
\* point of view of the side to move.  kind "none": the key is missing.
Cp(v) == [kind |-> "cp", v |-> v]
Mate(v) == [kind |-> "mate", v |-> v]
NoScore == [kind |-> "none", v |-> 0]

Info(score, pv) == [score |-> score, pv |-> pv]

\* Answers drawn for single evaluate() calls.  Mate(0) is the answer for a
\* position in which the side to move is checkmated.
EngineInfos ==
    {Info(s, pv) : s \in {Cp(-80), Cp(50), Mate(-2), Mate(0), Mate(3), NoScore},
                   pv \in {<<>>} \cup {<<m>> : m \in PvMoves}}

\* Answers drawn for the positions of an analysed game.
GameInfos ==
    {Info(Cp(50), <<[from_sq |-> "g1", to_sq |-> "f3", piece |-> "N"]>>),
     Info(Cp(-80), <<>>),
     Info(Cp(-100), <<[from_sq |-> "e2", to_sq |-> "e4", piece |-> ""]>>)}

\* ------------------------------------------------------- StockfishEngine
\* _score_to_centipawns(score, turn): score.relative is read (mate() or
\* score()), negated when Black is to move, and "cp or 0" is returned.
ScoreToCentipawns(score, turn) ==
    LET cp == IF score.kind = "mate"
              THEN (IF score.v > 0 THEN MateCp ELSE -MateCp)
              ELSE score.v
        flipped == IF turn = BLACK THEN -cp ELSE cp
    IN  IF flipped = 0 THEN 0 ELSE flipped

\* evaluate(), lines 39-61: the Evaluation built from an engine answer.
BuildEvaluation(info, board) ==
    Evaluation(
        IF info.score.kind # "none"
            THEN ScoreToCentipawns(info.score, board.turn) ELSE 0,
        IF info.pv # <<>> THEN Uci(Head(info.pv)) ELSE "",
        IF info.pv # <<>> THEN San(board, Head(info.pv)) ELSE "(none)")

\* evaluate(board) on an engine object whose self.engine is eng: the error
\* it raises ("" when it returns), whether a request went to the engine
\* process, and the value returned.  analyse_ok: the external analyse()
\* call answers rather than raising.
EvaluateCall(eng, board, info, analyse_ok) ==
    IF eng = NoEngine
    THEN [raised |-> "RuntimeError", requested |-> FALSE, value |-> NoEvaluation]
    ELSE IF ~analyse_ok
    THEN [raised |-> "EngineError", requested |-> TRUE, value |-> NoEvaluation]
    ELSE [raised |-> "", requested |-> TRUE, value |-> BuildEvaluation(info, board)]

\* is_blunder with a strict comparison.
IsBlunderStrict(eval_before, eval_after, threshold) ==
    eval_before.score_cp - eval_after.score_cp > threshold

\* is_blunder(eval_before, eval_after, threshold).
IsBlunder(eval_before, eval_after, threshold) ==
    LET eval_drop == eval_before.score_cp - eval_after.score_cp
    IN  eval_drop >= threshold

\* close() that quits the process but keeps the handle.
CloseCallKeepHandle(eng, quit_ok) ==
    IF eng # NoEngine
    THEN [engine |-> eng, quit_sent |-> <<eng>>, raised |-> ~quit_ok]
    ELSE [engine |-> eng, quit_sent |-> <<>>, raised |-> FALSE]

\* close() on an engine object whose self.engine is eng: the new value of
\* self.engine, the processes sent quit(), and whether close() raised.
\* quit_ok: the external quit() returns rather than raising; when it raises,
\* the assignment self.engine = None is not reached.
CloseCall(eng, quit_ok) ==
    IF eng # NoEngine
    THEN [engine |-> IF quit_ok THEN NoEngine ELSE eng,
          quit_sent |-> <<eng>>, raised |-> ~quit_ok]
    ELSE [engine |-> eng, quit_sent |-> <<>>, raised |-> FALSE]

\* -------------------------------------------------------- MockExplainer
\* explain_mistake(mistake): a fixed template naming the move played and the
\* engine's best move before it.
ExplainMistake(m) ==
    [why_good |-> "[Mock] The move " \o m.move_played \o " appeared to develop",
     why_failed |-> "[Mock] The best move was " \o m.evaluation_before.best_move_san,
     concept_involved |-> "[Mock] Tactical awareness and threat recognition",
     typical_pattern |-> "[Mock] Always check for opponent's threats"]

\* ----------------------------------------------------------- game text
\* A game text, as chess.pgn.read_game sees it: blank (the empty text, in
\* which it finds no game before the end of input), or headers and movetext.  The movetext is n legal moves, then, if
\* junk, a token that is no legal move.  first_turn is the side to move of
\* the start position (a FEN header may make it Black).
BlankText == [blank |-> TRUE, first_turn |-> WHITE, n |-> 0, junk |-> FALSE]

PgnTexts ==
    {BlankText} \cup
    {[blank |-> FALSE, first_turn |-> t, n |-> n, junk |-> j] :
        t \in {WHITE, BLACK}, n \in 0..MaxMoves, j \in BOOLEAN}

Mainline(n) == [k \in 1..n |-> MoveAt(k)]

NoGame == [parsed |-> FALSE, first_turn |-> WHITE, mainline |-> <<>>, errors |-> FALSE]

\* chess.pgn.read_game(StringIO(pgn_string)): None at end of input; else a
\* Game.  A token that is no legal move is recorded in game.errors and ends
\* the mainline there: no exception is raised for it.
ReadGame(text) ==
    IF text.blank THEN NoGame
    ELSE [parsed |-> TRUE, first_turn |-> text.first_turn,
          mainline |-> Mainline(text.n), errors |-> text.junk]

\* threshold values given to GameAnalyzer (default 100).
Thresholds == {100, 150}
TargetColors == {"white", "black", "both"}

\* ---------------------------------------------------------------- state
VARIABLES
    \* StockfishEngine and the processes it spawned
    engine,             \* self.engine: NoEngine or the id of a process
    procs,              \* number of engine processes spawned so far
    quits,              \* ids of the processes sent quit(), in order
    closes,             \* number of close() calls made
    session,            \* "new", "started" or "closed": the calls made so far
    ops,                \* number of API calls made on the engine object
    evalOut,            \* the last evaluate() call that returned
    lastOp,             \* the last API call on the engine object and its outcome
    \* GameAnalyzer and one analyze_pgn call
    pgn_string, target_color, blunder_threshold,
    table,              \* the engine's answer for the board after k moves
    game, board, idx, mistakes,
    eval_before, fen_before, move_number, move_san,
    eval_after, eval_after_flipped, move_color, mistake,
    pc,                 \* position in analyze_pgn
    exc,                \* the error analyze_pgn raised ("" if none)
    ret,                \* what analyze_pgn returned
    evalCalls,          \* boards passed to the Evaluator, in order
    evalReturns,        \* Evaluations the Evaluator returned, in order
    explainCalls,       \* mistakes passed to the explainer, in order
    classified,         \* arguments of the is_blunder calls, in order
    faults,             \* collaborator calls that raised in this run
    bothResult,         \* result of the last completed 'both' run
    \* main()
    mpc,                \* position in main()
    llm, max_mistakes,  \* args.llm, args.max_mistakes
    shown               \* the mistakes printed

engineVars == <<engine, procs, quits, closes, session, ops, evalOut,
                lastOp>>
inputVars == <<pgn_string, blunder_threshold, table>>
runVars == <<target_color, game, board, idx, mistakes, eval_before, fen_before,
             move_number, move_san, eval_after, eval_after_flipped, move_color,
             mistake, pc, exc, ret, evalCalls, evalReturns, explainCalls,
             classified, faults>>
mainVars == <<mpc, llm, max_mistakes, shown>>
vars == <<engineVars, inputVars, runVars, bothResult, mainVars>>

NoReturn == [returned |-> FALSE, value |-> <<>>]
NoEvalOut == [valid |-> FALSE, turn |-> WHITE, info |-> Info(NoScore, <<>>),
              value |-> NoEvaluation]

NoBoth == [known |-> FALSE, value |-> <<>>]
NoOp == [op |-> "", before |-> "new", raised |-> "", requested |-> FALSE,
         quit_sent |-> <<>>]

\* An engine object nobody has started.
EngineNew ==
    /\ engine = NoEngine
    /\ procs = 0
    /\ quits = <<>>
    /\ closes = 0
    /\ session = "new"
    /\ ops = 0
    /\ evalOut = NoEvalOut
    /\ lastOp = NoOp

\* An engine object after one successful start().
EngineStarted ==
    /\ engine = 1
    /\ procs = 1
    /\ quits = <<>>
    /\ closes = 0
    /\ session = "started"
    /\ ops = 0
    /\ evalOut = NoEvalOut
    /\ lastOp = NoOp

\* The answers of a deterministic engine for the boards of a game of n
\* moves: entry k+1 is its answer for the board after k moves.
Tables(n) == [1..(n + 1) -> GameInfos]

\* ------------------------------------------- StockfishEngine, as an API
\* start(): popen_uci spawns a process and self.engine holds it; when
\* popen_uci raises, self.engine keeps its value.
Start ==
    /\ ops < MaxOps
    /\ \E spawn_ok \in BOOLEAN :
         /\ engine' = IF spawn_ok THEN procs + 1 ELSE engine
         /\ procs' = IF spawn_ok THEN procs + 1 ELSE procs
         /\ session' = IF spawn_ok THEN "started" ELSE session
         /\ lastOp' = [op |-> "start", before |-> session,
                       raised |-> IF spawn_ok THEN "" ELSE "SpawnError",
                       requested |-> FALSE, quit_sent |-> <<>>]
    /\ ops' = ops + 1
    /\ UNCHANGED <<quits, closes, evalOut>>
    /\ UNCHANGED <<inputVars, runVars, bothResult, mainVars>>

\* close().
Close ==
    /\ ops < MaxOps
    /\ \E quit_ok \in BOOLEAN :
         LET r == CloseCall(engine, quit_ok) IN
         /\ engine' = r.engine
         /\ quits' = quits \o r.quit_sent
         /\ session' = IF r.raised \/ session = "new" THEN session ELSE "closed"
         /\ lastOp' = [op |-> "close", before |-> session,
                       raised |-> IF r.raised THEN "QuitError" ELSE "",
                       requested |-> FALSE, quit_sent |-> r.quit_sent]
    /\ closes' = closes + 1
    /\ ops' = ops + 1
    /\ UNCHANGED <<procs, evalOut>>
    /\ UNCHANGED <<inputVars, runVars, bothResult, mainVars>>

\* evaluate(board), for a board with either side to move and any answer of
\* the engine process.
Evaluate ==
    /\ ops < MaxOps
    /\ \E turn \in {WHITE, BLACK}, info \in EngineInfos, analyse_ok \in BOOLEAN :
         LET r == EvaluateCall(engine, StartBoard(turn), info, analyse_ok) IN
         /\ evalOut' = IF r.raised = ""
                       THEN [valid |-> TRUE, turn |-> turn, info |-> info,
                             value |-> r.value]
                       ELSE evalOut
         /\ lastOp' = [op |-> "evaluate", before |-> session, raised |-> r.raised,
                       requested |-> r.requested, quit_sent |-> <<>>]
    /\ ops' = ops + 1
    /\ UNCHANGED <<engine, procs, quits, closes, session>>
    /\ UNCHANGED <<inputVars, runVars, bothResult, mainVars>>

\* ------------------------------------------------------- GameAnalyzer
\* 'white' if board.turn == chess.WHITE else 'black'.
MoveColor(b) == IF b.turn = WHITE THEN "white" ELSE "black"

\* The colour test with its sense inverted.
ExcludedInverted(target, color) == target # "both" /\ target = color

\* target_color != 'both' and target_color != move_color.
Excluded(target, color) == target # "both" /\ target # color

\* The perspective flip without the negation.
FlipEvaluationKeepSign(e) ==
    Evaluation(e.score_cp, e.best_move_uci, e.best_move_san)

\* eval_after_flipped: the score negated, the best move kept.
FlipEvaluation(e) ==
    Evaluation(-e.score_cp, e.best_move_uci, e.best_move_san)

\* The Mistake with the drop taken from the raw scores' sum.
BuildMistakeSumDrop(b_after, fen_b, number, color, san, e_before, e_flipped) ==
    Mistake(Position(fen_b, number, color),
            Position(Fen(b_after), number, color),
            san, e_before, e_flipped,
            e_before.score_cp + e_flipped.score_cp)

\* Lines 89-112: the two Positions and the Mistake of a blunder.
BuildMistake(b_after, fen_b, number, color, san, e_before, e_flipped) ==
    Mistake(Position(fen_b, number, color),
            Position(Fen(b_after), number, color),
            san, e_before, e_flipped,
            e_before.score_cp - e_flipped.score_cp)

\* The answer of the engine process for a board of the game.
Answer(b) == table[Len(b.move_stack) + 1]

\* The move of the mainline node the loop is at.
CurrentMove == game.mainline[idx + 1]

\* A new analyze_pgn(pgn_string, color) call on the analyzer: fresh locals.
BeginRun(color) ==
    /\ target_color' = color
    /\ game' = NoGame
    /\ board' = StartBoard(WHITE)
    /\ idx' = 0
    /\ mistakes' = <<>>
    /\ eval_before' = NoEvaluation
    /\ fen_before' = ""
    /\ move_number' = 0
    /\ move_san' = ""
    /\ eval_after' = NoEvaluation
    /\ eval_after_flipped' = NoEvaluation
    /\ move_color' = ""
    /\ mistake' = NoMistake
    /\ exc' = ""
    /\ ret' = NoReturn
    /\ evalCalls' = <<>>
    /\ evalReturns' = <<>>
    /\ explainCalls' = <<>>
    /\ classified' = <<>>
    /\ faults' = 0
    /\ pc' = "parse"

\* A caller invokes analyze_pgn on the same game text with some colour.
AnalyzeCall ==
    /\ mpc = "none"
    /\ pc \in {"idle", "done", "raised"}
    /\ \E color \in TargetColors : BeginRun(color)
    /\ UNCHANGED <<engineVars, inputVars, bothResult, mainVars>>

\* Lines 42-49: parse; raise ValueError when there is no game; else start
\* with an empty list on the game's start position.
ParseGame ==
    /\ pc = "parse"
    /\ LET g == ReadGame(pgn_string) IN
         /\ game' = g
         /\ IF ~g.parsed
            THEN /\ pc' = "raised"
                 /\ exc' = "ValueError"
                 /\ UNCHANGED <<board, mistakes>>
            ELSE /\ pc' = "loop"
                 /\ mistakes' = <<>>
                 /\ board' = StartBoard(g.first_turn)
                 /\ exc' = exc
    /\ UNCHANGED <<target_color, idx, eval_before, fen_before, move_number,
                   move_san, eval_after, eval_after_flipped, move_color, mistake,
                   ret, evalCalls, evalReturns, explainCalls, classified, faults>>
    /\ UNCHANGED <<engineVars, inputVars, bothResult, mainVars>>

\* A raised call swallowed: the loop goes on with the next move.
PropagateSkipMove(kind) ==
    /\ pc' = "loop"
    /\ exc' = exc
    /\ idx' = idx + 1
    /\ UNCHANGED <<mistakes, ret>>

\* What the loop does when a collaborator call raises: nothing catches it.
Propagate(kind) ==
    /\ pc' = "raised"
    /\ exc' = kind
    /\ UNCHANGED <<idx, mistakes, ret>>

\* The board a filtered-out move leaves when the move is not applied.
SkipBoardStale(b, move) == b

\* Line 60: the board after a filtered-out move.
SkipBoard(b, move) == Push(b, move)

\* Lines 52-61: a move of a colour the caller did not ask for is applied to
\* the board and nothing else happens.
SkipMove ==
    /\ pc = "loop"
    /\ idx < Len(game.mainline)
    /\ Excluded(target_color, MoveColor(board))
    /\ move_color' = MoveColor(board)
    /\ board' = SkipBoard(board, CurrentMove)
    /\ idx' = idx + 1
    /\ UNCHANGED <<target_color, game, mistakes, eval_before, fen_before,
                   move_number, move_san, eval_after, eval_after_flipped, mistake,
                   pc, exc, ret, evalCalls, evalReturns, explainCalls, classified,
                   faults>>
    /\ UNCHANGED <<engineVars, inputVars, bothResult, mainVars>>

\* Lines 52-74: the board before the move is evaluated; then its FEN, the
\* move number and the move's SAN are taken, and the move is played.
EvaluateBefore ==
    /\ pc = "loop"
    /\ idx < Len(game.mainline)
    /\ ~Excluded(target_color, MoveColor(board))
    /\ move_color' = MoveColor(board)
    /\ evalCalls' = Append(evalCalls, board)
    /\ \E analyse_ok \in BOOLEAN :
         LET r == EvaluateCall(engine, board, Answer(board), analyse_ok) IN
         IF r.raised # ""
         THEN /\ faults' = faults + 1
              /\ Propagate(r.raised)
              /\ UNCHANGED <<board, eval_before, fen_before, move_number, move_san,
                             evalReturns>>
         ELSE /\ evalReturns' = Append(evalReturns, r.value)
              /\ eval_before' = r.value
              /\ fen_before' = Fen(board)
              /\ move_number' = board.fullmove_number
              /\ move_san' = San(board, CurrentMove)
              /\ board' = Push(board, CurrentMove)
              /\ pc' = "after"
              /\ UNCHANGED <<idx, mistakes, ret, exc, faults>>
    /\ UNCHANGED <<target_color, game, eval_after, eval_after_flipped, mistake,
                   explainCalls, classified>>
    /\ UNCHANGED <<engineVars, inputVars, bothResult, mainVars>>

\* Lines 77-112: the board after the move is evaluated, the score is
\* negated, is_blunder decides, and a blunder's Mistake is built.
EvaluateAfter ==
    /\ pc = "after"
    /\ evalCalls' = Append(evalCalls, board)
    /\ \E analyse_ok \in BOOLEAN :
         LET r == EvaluateCall(engine, board, Answer(board), analyse_ok)
             flipped == FlipEvaluation(r.value)
         IN
         IF r.raised # ""
         THEN /\ faults' = faults + 1
              /\ Propagate(r.raised)
              /\ UNCHANGED <<eval_after, eval_after_flipped, mistake, evalReturns,
                             classified>>
         ELSE /\ evalReturns' = Append(evalReturns, r.value)
              /\ eval_after' = r.value
              /\ eval_after_flipped' = flipped
              /\ classified' = Append(classified,
                                      [eval_before |-> eval_before,
                                       eval_after |-> flipped,
                                       threshold |-> blunder_threshold])
              /\ IF IsBlunder(eval_before, flipped, blunder_threshold)
                 THEN /\ mistake' = BuildMistake(board, fen_before, move_number,
                                                 move_color, move_san,
                                                 eval_before, flipped)
                      /\ pc' = "explain"
                      /\ idx' = idx
                 ELSE /\ mistake' = mistake
                      /\ pc' = "loop"
                      /\ idx' = idx + 1
              /\ UNCHANGED <<mistakes, ret, exc, faults>>
    /\ UNCHANGED <<target_color, game, board, eval_before, fen_before, move_number,
                   move_san, move_color, explainCalls>>
    /\ UNCHANGED <<engineVars, inputVars, bothResult, mainVars>>

\* Lines 115-123: the explainer is asked about the Mistake and the pair is
\* appended.  The stub never raises; a network-backed explainer may.
Explain ==
    /\ pc = "explain"
    /\ explainCalls' = Append(explainCalls, mistake)
    /\ \E explain_ok \in (IF llm = "mock" THEN {TRUE} ELSE BOOLEAN) :
         IF ~explain_ok
         THEN /\ faults' = faults + 1
              /\ Propagate("ExplainerError")
         ELSE /\ mistakes' = Append(mistakes,
                                    AnalyzedMistake(mistake, ExplainMistake(mistake)))
              /\ idx' = idx + 1
              /\ pc' = "loop"
              /\ UNCHANGED <<ret, exc, faults>>
    /\ UNCHANGED <<target_color, game, board, eval_before, fen_before, move_number,
                   move_san, eval_after, eval_after_flipped, move_color, mistake,
                   evalCalls, evalReturns, classified>>
    /\ UNCHANGED <<engineVars, inputVars, bothResult, mainVars>>

\* Line 125: the mainline is exhausted and the list is returned.
ReturnMistakes ==
    /\ pc = "loop"
    /\ idx = Len(game.mainline)
    /\ ret' = [returned |-> TRUE, value |-> mistakes]
    /\ pc' = "done"
    /\ bothResult' = IF target_color = "both"
                     THEN [known |-> TRUE, value |-> mistakes]
                     ELSE bothResult
    /\ UNCHANGED <<target_color, game, board, idx, mistakes, eval_before,
                   fen_before, move_number, move_san, eval_after,
                   eval_after_flipped, move_color, mistake, exc, evalCalls,
                   evalReturns, explainCalls, classified, faults>>
    /\ UNCHANGED <<engineVars, inputVars, mainVars>>

AnalyzeStep ==
    \/ ParseGame
    \/ SkipMove
    \/ EvaluateBefore
    \/ EvaluateAfter
    \/ Explain
    \/ ReturnMistakes

\* ---------------------------------------------------------------- main()
\* --max-mistakes values (default 3) and --llm choices.
MaxMistakesArgs == {1, 3}
LlmChoices == {"mock", "gemini"}

Min(a, b) == IF a < b THEN a ELSE b

\* Lines 153-154: the engine object is built and started.  When start()
\* raises nothing catches it and the process ends.
MainStart ==
    /\ mpc = "start"
    /\ \E spawn_ok \in BOOLEAN :
         /\ engine' = IF spawn_ok THEN procs + 1 ELSE engine
         /\ procs' = IF spawn_ok THEN procs + 1 ELSE procs
         /\ session' = IF spawn_ok THEN "started" ELSE session
         /\ mpc' = IF spawn_ok THEN "explainer" ELSE "exit_uncaught"
    /\ UNCHANGED <<quits, closes, ops, evalOut, lastOp>>
    /\ UNCHANGED <<inputVars, runVars, bothResult, llm, max_mistakes, shown>>

\* Lines 156-162: the explainer is constructed, outside any try block.  The
\* stub's constructor does nothing; the network-backed one builds a client
\* and may raise.
MainExplainer ==
    /\ mpc = "explainer"
    /\ \E ctor_ok \in (IF llm = "mock" THEN {TRUE} ELSE BOOLEAN) :
         mpc' = IF ctor_ok THEN "analyzer" ELSE "exit_uncaught"
    /\ UNCHANGED <<engineVars, inputVars, runVars, bothResult, llm, max_mistakes,
                   shown>>

\* Lines 164-169: GameAnalyzer(...) stores its three arguments.
MainAnalyzer ==
    /\ mpc = "analyzer"
    /\ mpc' = "try"
    /\ UNCHANGED <<engineVars, inputVars, runVars, bothResult, llm, max_mistakes,
                   shown>>

\* Lines 171-173: the try block is entered and analyze_pgn is called with
\* args.color.
MainAnalyze ==
    /\ mpc = "try"
    /\ BeginRun(target_color)
    /\ mpc' = "analyzing"
    /\ UNCHANGED <<engineVars, inputVars, bothResult, llm, max_mistakes, shown>>

\* Lines 173-194: analyze_pgn has returned or raised.  An empty list returns
\* early; otherwise the first max_mistakes entries are printed.  Any
\* Exception, from the analysis or from the output, is caught and answered
\* with sys.exit(1).
MainOutput ==
    /\ mpc = "analyzing"
    /\ pc \in {"done", "raised"}
    /\ IF pc = "raised"
       THEN /\ mpc' = "finally_exit"
            /\ shown' = shown
       ELSE IF ret.value = <<>>
       THEN /\ mpc' = "finally_return"
            /\ shown' = shown
       ELSE \E print_ok \in BOOLEAN :
            /\ shown' = IF print_ok
                        THEN SubSeq(ret.value, 1, Min(max_mistakes, Len(ret.value)))
                        ELSE shown
            /\ mpc' = IF print_ok THEN "finally_return" ELSE "finally_exit"
    /\ UNCHANGED <<engineVars, inputVars, runVars, bothResult, llm, max_mistakes>>

\* Lines 196-200: the finally block closes the engine, after a return as
\* after sys.exit(1).
MainFinally ==
    /\ mpc \in {"finally_return", "finally_exit"}
    /\ \E quit_ok \in BOOLEAN :
         LET r == CloseCall(engine, quit_ok) IN
         /\ engine' = r.engine
         /\ quits' = quits \o r.quit_sent
         /\ session' = IF r.raised \/ session = "new" THEN session ELSE "closed"
         /\ mpc' = IF r.raised THEN "exit_uncaught"
                   ELSE IF mpc = "finally_exit" THEN "exit_1" ELSE "exit_0"
    /\ closes' = closes + 1
    /\ UNCHANGED <<procs, ops, evalOut, lastOp>>
    /\ UNCHANGED <<inputVars, runVars, bothResult, llm, max_mistakes, shown>>

MainStep ==
    \/ MainStart
    \/ MainExplainer
    \/ MainAnalyzer
    \/ MainAnalyze
    \/ MainOutput
    \/ MainFinally

\* ------------------------------------------------------- specifications
\* A game text, the deterministic engine's answers for its boards, and the
\* analyzer's threshold.
InitInputs ==
    /\ pgn_string \in PgnTexts
    /\ table \in Tables(pgn_string.n)
    /\ blunder_threshold \in Thresholds

\* No analyze_pgn call has been made.
RunIdle ==
    /\ game = NoGame
    /\ board = StartBoard(WHITE)
    /\ idx = 0
    /\ mistakes = <<>>
    /\ eval_before = NoEvaluation
    /\ fen_before = ""
    /\ move_number = 0
    /\ move_san = ""
    /\ eval_after = NoEvaluation
    /\ eval_after_flipped = NoEvaluation
    /\ move_color = ""
    /\ mistake = NoMistake
    /\ exc = ""
    /\ ret = NoReturn
    /\ evalCalls = <<>>
    /\ evalReturns = <<>>
    /\ explainCalls = <<>>
    /\ classified = <<>>
    /\ faults = 0
    /\ pc = "idle"
    /\ bothResult = NoBoth

\* analyze_pgn calls on a GameAnalyzer with a started engine and an
\* explainer that may raise.
Init ==
    /\ EngineStarted
    /\ InitInputs
    /\ RunIdle
    /\ target_color = "both"
    /\ mpc = "none"
    /\ llm = "gemini"
    /\ max_mistakes = 3
    /\ shown = <<>>

Next == AnalyzeCall \/ AnalyzeStep

Spec == Init /\ [][Next]_vars

\* API calls on a fresh StockfishEngine.
InitEngine ==
    /\ EngineNew
    /\ pgn_string = BlankText
    /\ table = [k \in 1..1 |-> Info(NoScore, <<>>)]
    /\ blunder_threshold = 100
    /\ RunIdle
    /\ target_color = "both"
    /\ mpc = "none"
    /\ llm = "mock"
    /\ max_mistakes = 3
    /\ shown = <<>>

NextEngine == Start \/ Close \/ Evaluate

SpecEngine == InitEngine /\ [][NextEngine]_vars

\* One run of main() on a PGN file, from engine.start().
InitMain ==
    /\ EngineNew
    /\ InitInputs
    /\ RunIdle
    /\ target_color \in TargetColors
    /\ mpc = "start"
    /\ llm \in LlmChoices
    /\ max_mistakes \in MaxMistakesArgs
    /\ shown = <<>>

NextMain == MainStep \/ AnalyzeStep

SpecMain == InitMain /\ [][NextMain]_vars

\* ================================================================ claims
\* What the claims speak of, stated from the game and the engine's answers.

\* The start position of g with its first k moves applied.
RECURSIVE BoardAfter(_, _)
BoardAfter(g, k) ==
    IF k = 0 THEN StartBoard(g.first_turn)
    ELSE Push(BoardAfter(g, k - 1), g.mainline[k])

\* The side to move before move k is applied.
Mover(g, k) == IF BoardAfter(g, k - 1).turn = WHITE THEN "white" ELSE "black"

\* What the Evaluator returns for a board of the game.
EvaluatorValue(b) == BuildEvaluation(Answer(b), b)

\* Move k's mover is one the caller asked for.
Matches(g, color, k) == color = "both" \/ color = Mover(g, k)

\* eval_before.score_cp minus the normalized after score of move k.
DropOf(g, k) ==
    EvaluatorValue(BoardAfter(g, k - 1)).score_cp
        - (0 - EvaluatorValue(BoardAfter(g, k)).score_cp)

\* The moves among the first k that must be reported, in game order.
RECURSIVE Qualifying(_, _, _)
Qualifying(g, color, k) ==
    IF k = 0 THEN <<>>
    ELSE IF Matches(g, color, k) /\ DropOf(g, k) >= blunder_threshold
         THEN Append(Qualifying(g, color, k - 1), k)
         ELSE Qualifying(g, color, k - 1)

\* The boards the Evaluator must be given for the first k moves, in order.
RECURSIVE ExpectedCalls(_, _, _)
ExpectedCalls(g, color, k) ==
    IF k = 0 THEN <<>>
    ELSE IF Matches(g, color, k)
         THEN ExpectedCalls(g, color, k - 1)
                  \o <<BoardAfter(g, k - 1), BoardAfter(g, k)>>
         ELSE ExpectedCalls(g, color, k - 1)

IsPrefix(a, b) == Len(a) <= Len(b) /\ a = SubSeq(b, 1, Len(a))

\* Every Mistake the run holds: collected, pending explanation, returned.
HeldMistakes ==
    {mistakes[i].the_mistake : i \in 1..Len(mistakes)}
        \cup {ret.value[i].the_mistake : i \in 1..Len(ret.value)}
        \cup (IF pc = "explain" THEN {mistake} ELSE {})

\* C1: evaluate returns a score relative to the side to move, for White and
\* for Black to move: positive exactly when the engine's assessment favours
\* the side to move, negative exactly when it favours the opponent; +10000
\* when the side to move mates, -10000 when it is being mated; 0 when the
\* engine gives no score.
C1_ScoreRelativeToSideToMove ==
    evalOut.valid =>
        LET s == evalOut.info.score
            v == evalOut.value.score_cp
        IN  /\ s.kind = "cp" => /\ (v > 0) <=> (s.v > 0)
                                /\ (v < 0) <=> (s.v < 0)
            /\ s.kind = "mate" => v = (IF s.v > 0 THEN 10000 ELSE -10000)
            /\ s.kind = "none" => v = 0

\* C2: for every evaluated move, the after-move evaluation passed to the
\* classifier and stored in the Mistake has score_cp = -S, S being the score
\* the Evaluator returned for the board after the move, with that raw
\* evaluation's best-move fields; eval_before is passed and stored unchanged.
C2_AfterEvalNegated ==
    /\ \A j \in 1..Len(classified) :
         /\ 2 * j <= Len(evalReturns)
         /\ classified[j].eval_after.score_cp = 0 - evalReturns[2 * j].score_cp
         /\ classified[j].eval_after.best_move_uci = evalReturns[2 * j].best_move_uci
         /\ classified[j].eval_after.best_move_san = evalReturns[2 * j].best_move_san
         /\ classified[j].eval_before = evalReturns[2 * j - 1]
    /\ \A m \in HeldMistakes :
         \E k \in 1..Len(game.mainline) :
            LET raw == EvaluatorValue(BoardAfter(game, k)) IN
            /\ m.position_after_move.fen = Fen(BoardAfter(game, k))
            /\ m.evaluation_after.score_cp = 0 - raw.score_cp
            /\ m.evaluation_after.best_move_uci = raw.best_move_uci
            /\ m.evaluation_after.best_move_san = raw.best_move_san
            /\ m.evaluation_before = EvaluatorValue(BoardAfter(game, k - 1))

\* A run returned a Mistake whose stored after-score is the negated raw 80.
C2_Witness ==
    /\ pc = "done"
    /\ \E i \in 1..Len(ret.value) :
         /\ ret.value[i].the_mistake.evaluation_after.score_cp = -80
         /\ ret.value[i].the_mistake.evaluation_after.best_move_uci = ""
         /\ ret.value[i].the_mistake.evaluation_before.best_move_uci # ""

\* C3: for every Mistake of the result, eval_drop_cp equals
\* evaluation_before.score_cp - evaluation_after.score_cp of that Mistake,
\* and is at least the analyzer's blunder_threshold.
C3_DropConsistent ==
    \A m \in HeldMistakes :
        /\ m.eval_drop_cp = m.evaluation_before.score_cp - m.evaluation_after.score_cp
        /\ m.eval_drop_cp >= blunder_threshold

\* A run returned a Mistake whose drop is exactly the threshold.
C3_Witness ==
    /\ pc = "done"
    /\ \E i \in 1..Len(ret.value) :
         /\ ret.value[i].the_mistake.eval_drop_cp = blunder_threshold
         /\ ret.value[i].the_mistake.evaluation_after.score_cp # 0

\* C4: analyze_pgn(game, 'white') returns only Mistakes whose
\* position_before_move.player_color is 'white', the side to move before the
\* move, and equals, entry for entry and in order, the white-mover entries of
\* analyze_pgn(game, 'both') on the same game; likewise for 'black'.
C4_ColorFilterExact ==
    (pc = "done" /\ target_color \in {"white", "black"}) =>
        /\ \A i \in 1..Len(ret.value) :
             LET m == ret.value[i].the_mistake IN
             /\ m.position_before_move.player_color = target_color
             /\ \E k \in 1..Len(game.mainline) :
                  /\ m.position_before_move.fen = Fen(BoardAfter(game, k - 1))
                  /\ Mover(game, k) = target_color
        /\ bothResult.known =>
             LET OfColor(a) ==
                     a.the_mistake.position_before_move.player_color = target_color
             IN  ret.value = SelectSeq(bothResult.value, OfColor)

\* A 'white' run returned a Mistake after a 'both' run that found more.
C4_Witness ==
    /\ pc = "done"
    /\ target_color = "white"
    /\ bothResult.known
    /\ Len(ret.value) >= 1
    /\ Len(bothResult.value) > Len(ret.value)

\* C5: in a run that completes, the Evaluator is called exactly twice per
\* move whose mover matches target_color, on the board before and then on
\* the board after the move, mistake or not, and never for an excluded move;
\* the excluded move is applied all the same, so the board at move i is the
\* start position with the first i-1 moves applied.
C5_EvaluatorCalls ==
    /\ pc \in {"loop", "done"} => board = BoardAfter(game, idx)
    /\ pc \in {"after", "explain"} => board = BoardAfter(game, idx + 1)
    /\ pc \in {"loop", "done"} =>
         evalCalls = ExpectedCalls(game, target_color, idx)
    /\ pc = "done" =>
         /\ idx = Len(game.mainline)
         /\ evalCalls = ExpectedCalls(game, target_color, Len(game.mainline))

\* A 'black' run over three moves found nothing and still evaluated.
C5_Witness ==
    /\ pc = "done"
    /\ target_color = "black"
    /\ Len(game.mainline) = 3
    /\ ret.value = <<>>
    /\ Len(evalCalls) >= 2
    /\ Len(evalCalls) < 2 * Len(game.mainline)

\* C6: a game text that is invalid or cannot be parsed (empty included)
\* makes analyze_pgn raise the invalid-input error before the loop: no
\* Evaluator call, no explainer call, nothing returned.
C6_InvalidTextRaises ==
    ((pgn_string.blank \/ pgn_string.junk) /\ pc \notin {"idle", "parse"}) =>
        /\ pc = "raised"
        /\ exc = "ValueError"
        /\ evalCalls = <<>>
        /\ explainCalls = <<>>
        /\ ~ret.returned

\* C7: once engine.start() has succeeded in main(), engine.close() runs
\* exactly once on every exit path that follows.
C7_CloseOnceOnEveryExit ==
    (mpc \in {"exit_0", "exit_1", "exit_uncaught"} /\ procs > 0) => closes = 1

\* C8: evaluate sends a request to the engine process only when the session
\* is started (a start() with no close() after it); never started or closed,
\* it raises the engine-not-ready error and sends nothing; close() on a
\* never-started or closed session raises nothing and quits no process.
C8_EngineSession ==
    /\ lastOp.op = "evaluate" =>
         /\ lastOp.requested <=> (lastOp.before = "started")
         /\ lastOp.before # "started" => lastOp.raised = "RuntimeError"
         /\ lastOp.before = "started" => lastOp.raised # "RuntimeError"
    /\ (lastOp.op = "close" /\ lastOp.before # "started") =>
         /\ lastOp.raised = ""
         /\ lastOp.quit_sent = <<>>
         /\ session = lastOp.before
         /\ engine = NoEngine

\* evaluate was refused on a session that had been started and closed.
C8_Witness ==
    /\ lastOp.op = "evaluate"
    /\ lastOp.before = "closed"
    /\ lastOp.raised = "RuntimeError"
    /\ Len(quits) = 1

\* C9: when an Evaluator or explainer call raises during analyze_pgn, the
\* error leaves analyze_pgn at once: no further call, no retry, the move is
\* not skipped, and the Mistakes collected so far are not returned.
C9_ErrorsPropagate ==
    faults > 0 =>
        /\ faults = 1
        /\ pc = "raised"
        /\ exc \in {"EngineError", "ExplainerError"}
        /\ ~ret.returned
        /\ idx < Len(game.mainline)
        /\ exc = "EngineError" =>
             /\ Len(evalCalls) = Len(evalReturns) + 1
             /\ evalCalls[Len(evalCalls)] = board
             /\ IsPrefix(evalCalls, ExpectedCalls(game, target_color, idx + 1))
             /\ Len(explainCalls) = Len(mistakes)
        /\ exc = "ExplainerError" =>
             /\ Len(explainCalls) = Len(mistakes) + 1
             /\ explainCalls[Len(explainCalls)] = mistake
             /\ evalCalls = ExpectedCalls(game, target_color, idx + 1)

\* The explainer raised on a later Mistake; the earlier one is not returned.
C9_Witness ==
    /\ pc = "raised"
    /\ exc = "ExplainerError"
    /\ Len(mistakes) >= 1
    /\ ~ret.returned

\* C10: a run that completes returns exactly one AnalyzedMistake per move
\* whose mover matches target_color and whose drop is >= the threshold, in
\* game order, each with the Explanation of the one explainer call made for
\* it; a one-move game with +50 before and -80 after gives one Mistake at
\* threshold 100 and none at 150; a game without moves gives none.
C10_ExactResult ==
    pc = "done" =>
        LET n == Len(game.mainline)
            q == Qualifying(game, target_color, n)
        IN  /\ ret.returned
            /\ Len(ret.value) = Len(q)
            /\ \A i \in 1..Len(q) :
                 LET m == ret.value[i].the_mistake
                     b == BoardAfter(game, q[i] - 1)
                 IN  /\ m.position_before_move.fen = Fen(b)
                     /\ m.move_played = San(b, game.mainline[q[i]])
                     /\ ret.value[i].the_explanation = ExplainMistake(m)
                     /\ explainCalls[i] = m
            /\ Len(explainCalls) = Len(q)
            /\ n = 0 => ret.value = <<>>
            /\ (/\ n = 1
                /\ Matches(game, target_color, 1)
                /\ EvaluatorValue(BoardAfter(game, 0)).score_cp = 50
                /\ EvaluatorValue(BoardAfter(game, 1)).score_cp = 80) =>
                   /\ blunder_threshold = 100 => Len(ret.value) = 1
                   /\ blunder_threshold = 150 => ret.value = <<>>

\* The one-move game of the scenario returned its one Mistake.
C10_Witness ==
    /\ pc = "done"
    /\ Len(game.mainline) = 1
    /\ blunder_threshold = 100
    /\ Len(ret.value) = 1
    /\ ret.value[1].the_mistake.evaluation_before.score_cp = 50
    /\ ret.value[1].the_mistake.evaluation_after.score_cp = -80
    /\ ret.value[1].the_mistake.eval_drop_cp = 130

=============================================================================
